---- MODULE Spec2Model ----
(***************************************************************************)
(* Model of src/core/lib/engine_asyngular.js: one virtual user running a   *)
(* scenario whose flow is a single emit step.  The scenario chain is       *)
(* z (zero) -> preStep -> f -> scenarioWaterfallCb.                        *)
(***************************************************************************)
EXTENDS Integers, Sequences, FiniteSets, TLC

\* ---------------------------------------------------------------- bounds
MaxResp == 3        \* declared response specs in emit.response
MaxMsgs == 3        \* messages delivered to the step's receivers

\* ------------------------------------------------------------ input sets
Channels == {"a", "b"}
Namespaces == {"", "n"}
MsgData == {1, 2}                      \* payloads; 1 is the expected one
NoErr == "null"

\* responseSpec: { channel, data, match }; data/match = 0 when not declared,
\* 1 when it declares the expectation "payload = 1".  The specs enumerated
\* declare at most one of the two.
ResponseSpecs ==
    {s \in [channel : Channels, data : 0..1, match : 0..1] : s.data + s.match <= 1}
AckSpecs ==
    {s \in [required : BOOLEAN, data : 0..1, match : 0..1] :
        /\ s.data + s.match <= 1
        /\ ~s.required => (s.data = 0 /\ s.match = 0)}

RECURSIVE SeqsUpTo(_, _)
SeqsUpTo(S, n) ==
    IF n = 0 THEN {<< >>}
    ELSE LET shorter == SeqsUpTo(S, n - 1)
         IN  shorter \cup {Append(q, x) : q \in {r \in shorter : Len(r) = n - 1}, x \in S}

RequestSpecs ==
    [namespace : Namespaces, hasChannel : BOOLEAN, acknowledge : AckSpecs,
     response : SeqsUpTo(ResponseSpecs, MaxResp), beforeResponse : BOOLEAN]

VARIABLES
    requestSpec,            \* the emit step of the flow
    pc,                     \* position of the scenario chain
    sockets,                \* context.sockets: namespaces that have a client
    connected,              \* clients that are connected and not disconnected
    transmitted,            \* transmit calls: <<[ack |-> BOOLEAN]>>
    ackPending,             \* ackCallback handed to transmit, not yet called
    opened,                 \* channels for which the step opened a receiver
    receivers,              \* channels whose listener loop is still running
    index,                  \* per-channel index (line 222)
    currentResponsesCount,  \* line 219
    timer,                  \* "off" | "armed" | "fired"
    cbCalls,                \* invocations of the step callback (their err)
    errors,                 \* ee 'error' events
    responseEvents,         \* number of ee 'response' events (markEndTime)
    requestEvents,          \* number of ee 'request' events
    matchEvents,            \* number of ee 'match' events
    ctxVars,                \* context.vars (captured value, 0 = nothing)
    successCount,           \* context._successCount
    validations,            \* processResponse calls: <<[channel, spec, ok]>>
    arrivals,               \* messages delivered so far
    lastEvent,              \* what the last handler was, and what it saw
    created,                \* io.create calls per namespace (line 336)
    connectCbCalls,         \* per created client: calls of the cb given to
                            \* the loadContextSocket call that created it
    socketErrors,           \* clients that reported 'error' before 'connect'
    calls,                  \* transport and timer calls of f, in order
    pending                 \* validations started and not yet called back

vars == <<requestSpec, pc, sockets, connected, transmitted, ackPending, opened,
          receivers, index, currentResponsesCount, timer, cbCalls, errors,
          responseEvents, requestEvents, matchEvents, ctxVars, successCount,
          validations, arrivals, lastEvent, created, connectCbCalls,
          socketErrors, calls, pending>>

connVars == <<created, connectCbCalls, socketErrors>>

stepVars == <<transmitted, ackPending, opened, receivers, index,
              currentResponsesCount, timer, cbCalls, errors, responseEvents,
              requestEvents, matchEvents, ctxVars, successCount, validations>>

\* ------------------------------------------------------- pure functions

\* isResponseRequired (lines 47-49)
isResponseRequired(spec) == Len(spec.response) > 0

\* isAcknowledgeRequired (lines 51-53)
isAcknowledgeRequired(spec) == spec.acknowledge.required

\* engineUtil.captureOrMatch: the matches of a response, each with .success
captureOrMatch(response, data) ==
    [failed |-> response.match = 1 /\ data # 1, captured |-> data]

\* processResponse (lines 55-117): the err handed to its callback and what it
\* did to the context and the event emitter
processResponse(response, data) ==
    IF response.data # 0 /\ data # response.data
    THEN [err |-> "data is not valid", emitted |-> <<"data is not valid">>,
          matches |-> 0, capture |-> FALSE]
    ELSE IF response.match = 0
    THEN [err |-> NoErr, emitted |-> << >>, matches |-> 0, capture |-> FALSE]
    ELSE IF captureOrMatch(response, data).failed
    THEN [err |-> "Failed match", emitted |-> <<"Failed match">>,
          matches |-> 0, capture |-> FALSE]
    ELSE [err |-> NoErr, emitted |-> << >>, matches |-> 1, capture |-> TRUE]

\* _.groupBy(requiredResponses, 'channel') (line 216): the responses[] of a
\* channel, in declaration order
channelsResponses(spec, channel) ==
    SelectSeq(spec.response, LAMBDA r : r.channel = channel)

\* the keys of channelsResponses
expectedChannels(spec) == {spec.response[i].channel : i \in 1..Len(spec.response)}

\* requiredResponsesCountsByChannel[channel] (lines 223-227)
requiredResponsesCountsByChannel(spec, channel) ==
    Len(channelsResponses(spec, channel))

\* requiredResponsesCount (lines 218-228)
requiredResponsesCount(spec) == Len(spec.response)

\* let index = -1 (line 222)
InitialIndex == -1

\* a slip of line 258: the index applied to the undivided emit.response
responsesAtUngrouped(spec, channel, idx) == spec.response[idx + 1]

\* responses[index] (line 258); JavaScript arrays are 0-based
responsesAt(spec, channel, idx) == channelsResponses(spec, channel)[idx + 1]

\* ------------------------------------------------------------------ Init
Init ==
    /\ requestSpec \in RequestSpecs
    /\ pc = "zero"
    /\ sockets = {}
    /\ connected = {}
    /\ transmitted = << >>
    /\ ackPending = FALSE
    /\ opened = {}
    /\ receivers = {}
    /\ index = [c \in Channels |-> InitialIndex]
    /\ currentResponsesCount = 0
    /\ timer = "off"
    /\ cbCalls = << >>
    /\ errors = << >>
    /\ responseEvents = 0
    /\ requestEvents = 0
    /\ matchEvents = 0
    /\ ctxVars = 0
    /\ successCount = 0
    /\ validations = << >>
    /\ arrivals = 0
    /\ lastEvent = [kind |-> "none"]
    /\ created = [n \in Namespaces |-> 0]
    /\ connectCbCalls = [n \in Namespaces |-> 0]
    /\ socketErrors = {}
    /\ calls = << >>
    /\ pending = {}

\* ------------------------------------------------------------- callbacks

\* closeContextSockets (lines 363-370): every stored client is disconnected
closeContextSockets(conn) == conn \ sockets'

\* The step's callback is async.waterfall's continuation of the last task.
\* Its first invocation runs scenarioWaterfallCb (lines 408-416), which closes
\* the context's sockets; waterfall rejects any further invocation.
callback(err, conn) ==
    /\ cbCalls' = Append(cbCalls, err)
    /\ IF cbCalls = << >>
       THEN /\ pc' = "done"
            /\ connected' = closeContextSockets(conn)
       ELSE /\ pc' = pc
            /\ connected' = conn

\* f returns, or a handler ends, without invoking the step's callback
noCallback(nextPc, conn) ==
    /\ cbCalls' = cbCalls
    /\ pc' = nextPc
    /\ connected' = conn

\* markEndTime (lines 41-45): one 'response' event
markEndTime == responseEvents' = responseEvents + 1

\* a slip of lines 88-105: the captures written to context.vars before the
\* failed matches are looked at
processResponseEffectsEarlyCapture(r, data) ==
    /\ errors' = errors \o r.emitted
    /\ matchEvents' = matchEvents + r.matches
    /\ ctxVars' = IF r.capture \/ r.err = "Failed match" THEN data ELSE ctxVars
    /\ successCount' = IF r.capture THEN successCount + 1 ELSE successCount

\* what processResponse (lines 55-117) does to the emitter and the context
processResponseEffects(r, data) ==
    /\ errors' = errors \o r.emitted
    /\ matchEvents' = matchEvents + r.matches
    /\ ctxVars' = IF r.capture THEN data ELSE ctxVars
    /\ successCount' = IF r.capture THEN successCount + 1 ELSE successCount

\* ------------------------------------------------------------- the step

\* a slip of lines 171-206: the acknowledge branch taken for every step
endCallbackAlwaysAck(conn) ==
    /\ transmitted' = Append(transmitted, [ack |-> TRUE])
    /\ ackPending' = TRUE
    /\ noCallback("stepWait", conn)
    /\ UNCHANGED responseEvents

\* endCallback(null, context, true) (lines 166-207, called at line 295)
endCallback(conn) ==
    IF isAcknowledgeRequired(requestSpec)
    THEN /\ transmitted' = Append(transmitted, [ack |-> TRUE])
         /\ ackPending' = TRUE
         /\ noCallback("stepWait", conn)
         /\ UNCHANGED responseEvents
    ELSE /\ transmitted' = Append(transmitted, [ack |-> FALSE])
         /\ ackPending' = ackPending
         /\ markEndTime
         /\ callback(NoErr, conn)

\* the keys of channelsResponses in the order _.forEach visits them
\* (line 221): the order of first declaration
RECURSIVE channelOrder(_)
channelOrder(responses) ==
    IF responses = << >> THEN << >>
    ELSE LET n == Len(responses)
             before == channelOrder(SubSeq(responses, 1, n - 1))
             c == responses[n].channel
         IN  IF \E i \in 1..Len(before) : before[i] = c
             THEN before ELSE Append(before, c)

\* a slip of lines 221-293: the timer armed inside the loop over the
\* channels, once per channel group
responseBranchCallsTimerPerChannel(spec) ==
    LET order == channelOrder(spec.response)
    IN  [i \in 1..(2 * Len(order)) |->
            IF i % 2 = 1 THEN [op |-> "receiver", channel |-> order[(i + 1) \div 2]]
            ELSE [op |-> "setTimeout", channel |-> "out"]]
        \o <<[op |-> "transmit", channel |-> "out"]>>

\* the calls the response branch makes, in program order: receiver(channel)
\* for each channel group (line 241), transmit (line 282), setTimeout
\* (line 286)
responseBranchCalls(spec) ==
    LET order == channelOrder(spec.response)
    IN  [i \in 1..Len(order) |-> [op |-> "receiver", channel |-> order[i]]]
        \o <<[op |-> "transmit", channel |-> "out"],
             [op |-> "setTimeout", channel |-> "out"]>>

\* the emit-with-response branch of f (lines 209-293): a listener per
\* distinct channel, then the transmit, then the timer
responseBranch(conn) ==
    /\ opened' = expectedChannels(requestSpec)
    /\ receivers' = expectedChannels(requestSpec)
    /\ transmitted' = Append(transmitted, [ack |-> FALSE])
    /\ timer' = "armed"
    /\ noCallback("stepWait", conn)
    /\ UNCHANGED <<ackPending, responseEvents, errors>>

\* f (lines 144-297) for an emit step; conn is the set of connected clients
\* at the time of the call
f(conn) ==
    /\ requestEvents' = requestEvents + 1
    /\ IF ~(requestSpec.hasChannel /\ requestSpec.namespace \in sockets')
       THEN /\ errors' = Append(errors, "invalid arguments")
            /\ noCallback("stepWait", conn)
            /\ UNCHANGED <<transmitted, ackPending, opened, receivers, timer,
                           responseEvents, calls>>
       ELSE IF isResponseRequired(requestSpec)
       THEN /\ responseBranch(conn)
            /\ calls' = calls \o responseBranchCalls(requestSpec)
       ELSE /\ endCallback(conn)
            /\ calls' = Append(calls, [op |-> "transmit", channel |-> "out"])
            /\ UNCHANGED <<opened, receivers, timer, errors>>
    /\ UNCHANGED <<index, currentResponsesCount, matchEvents, ctxVars,
                   successCount, validations>>

\* ------------------------------------------------ the scenario chain

\* a slip of line 325: the stored client is not looked up
socketExistsNever(namespace) == FALSE

\* context.sockets[namespace] (line 325)
socketExists(namespace) == namespace \in sockets

\* zero (lines 378-389) with loadContextSocket('') on an empty context
\* (lines 321-353): the client is created and stored, the call waits for
\* 'connect'
zero ==
    /\ pc = "zero"
    /\ sockets' = sockets \cup {""}
    /\ pc' = "zeroWait"
    /\ lastEvent' = [kind |-> "zero"]
    /\ created' = [created EXCEPT ![""] = @ + 1]
    /\ UNCHANGED <<requestSpec, connected, arrivals, connectCbCalls,
                   socketErrors, calls, pending>>
    /\ UNCHANGED stepVars

\* 'connect' of the default client (lines 346-353) -> done (lines 381-388)
\* -> the chain goes on to preStep
connectZero ==
    /\ pc = "zeroWait"
    /\ connected' = connected \cup {""}
    /\ pc' = "preStep"
    /\ lastEvent' = [kind |-> "connect"]
    /\ connectCbCalls' = [connectCbCalls EXCEPT ![""] = @ + 1]
    /\ UNCHANGED <<requestSpec, sockets, arrivals, created, socketErrors,
                   calls, pending>>
    /\ UNCHANGED stepVars

\* preStep (lines 299-312) and loadContextSocket (lines 321-361)
preStep ==
    /\ pc = "preStep"
    /\ lastEvent' = [kind |-> "preStep"]
    /\ UNCHANGED <<requestSpec, arrivals, connectCbCalls, socketErrors,
                   pending>>
    /\ IF socketExists(requestSpec.namespace)
       THEN /\ sockets' = sockets
            /\ created' = created
            /\ f(connected)
       ELSE /\ sockets' = sockets \cup {requestSpec.namespace}
            /\ created' = [created EXCEPT ![requestSpec.namespace] = @ + 1]
            /\ pc' = "preStepWait"
            /\ UNCHANGED <<connected, calls>>
            /\ UNCHANGED stepVars

\* 'connect' of the client created by preStep (lines 346-353) -> f
connectStep ==
    /\ pc = "preStepWait"
    /\ lastEvent' = [kind |-> "connect"]
    /\ sockets' = sockets
    /\ connectCbCalls' =
           [connectCbCalls EXCEPT ![requestSpec.namespace] = @ + 1]
    /\ UNCHANGED <<requestSpec, arrivals, created, socketErrors, pending>>
    /\ f(connected \cup {requestSpec.namespace})

\* ------------------------------------------------ the step's events

\* responses[index] as handed to the beforeResponse hook (line 249), where
\* index has not been incremented yet; an index outside the array gives
\* undefined
hookArgument(spec, channel, idx) ==
    LET responses == channelsResponses(spec, channel)
    IN  IF idx >= 0 /\ idx < Len(responses)
        THEN [defined |-> TRUE, spec |-> responses[idx + 1]]
        ELSE [defined |-> FALSE,
              spec |-> [channel |-> channel, data |-> 0, match |-> 0]]

\* one iteration of the listener loop of a channel (lines 241-277)
listener(channel, data, hook) ==
    /\ channel \in receivers
    /\ requestSpec.namespace \in connected
    /\ arrivals < MaxMsgs
    /\ arrivals' = arrivals + 1
    /\ UNCHANGED <<requestSpec, sockets, transmitted, ackPending, opened,
                   timer, requestEvents, calls, pending>>
    /\ UNCHANGED connVars
    /\ LET beforeResponse == IF requestSpec.beforeResponse THEN hook ELSE TRUE
           idx == index[channel] + 1
           cnt == currentResponsesCount + 1
       IN  IF ~beforeResponse
           THEN /\ lastEvent' = [kind |-> "ignored", channel |-> channel,
                                  hookArg |-> hookArgument(requestSpec, channel,
                                                           index[channel])]
                /\ UNCHANGED <<receivers, index, currentResponsesCount, cbCalls,
                               errors, responseEvents, matchEvents, ctxVars,
                               successCount, validations, pc, connected>>
           ELSE /\ index' = [index EXCEPT ![channel] = idx]
                /\ currentResponsesCount' = cnt
                /\ lastEvent' =
                       IF requestSpec.beforeResponse
                       THEN [kind |-> "message", channel |-> channel,
                             hookArg |-> hookArgument(requestSpec, channel,
                                                      index[channel])]
                       ELSE [kind |-> "message"]
                /\ IF idx >= Len(channelsResponses(requestSpec, channel))
                   THEN \* responses[index] is undefined: processResponse
                        \* throws and the listener task ends
                        /\ receivers' = receivers \ {channel}
                        /\ UNCHANGED <<cbCalls, errors, responseEvents,
                                       matchEvents, ctxVars, successCount,
                                       validations, pc, connected>>
                   ELSE LET response == responsesAt(requestSpec, channel, idx)
                            r == processResponse(response, data)
                            failed == r.err # NoErr
                            channelDone ==
                                requiredResponsesCountsByChannel(requestSpec, channel) - 1 = idx
                            stepDone == requiredResponsesCount(requestSpec) = cnt
                        IN  /\ processResponseEffects(r, data)
                            /\ validations' = Append(validations,
                                   [channel |-> channel, spec |-> response,
                                    ok |-> ~failed])
                            /\ IF failed THEN UNCHANGED responseEvents
                                         ELSE markEndTime
                            /\ receivers' =
                                   IF channelDone \/ stepDone \/ failed
                                   THEN receivers \ {channel} ELSE receivers
                            /\ IF stepDone \/ failed
                               THEN callback(r.err, connected)
                               ELSE noCallback(pc, connected)

\* responseTimeout (lines 286-293)
responseTimeout ==
    /\ timer = "armed"
    /\ timer' = "fired"
    /\ lastEvent' = [kind |-> "timeout"]
    /\ sockets' = sockets
    /\ IF requiredResponsesCount(requestSpec) # currentResponsesCount
       THEN /\ errors' = Append(errors, "response timeout")
            /\ callback("response timeout", connected)
       ELSE /\ errors' = errors
            /\ noCallback(pc, connected)
    /\ UNCHANGED <<requestSpec, transmitted, ackPending, opened, receivers,
                   index, currentResponsesCount, responseEvents, requestEvents,
                   matchEvents, ctxVars, successCount, validations, arrivals,
                   calls, pending>>
    /\ UNCHANGED connVars

\* ackCallback (lines 172-191), called by the transport with the remote
\* acknowledgement
ackCallback(data) ==
    /\ ackPending
    /\ requestSpec.namespace \in connected
    /\ ackPending' = FALSE
    /\ lastEvent' = [kind |-> "ack"]
    /\ sockets' = sockets
    /\ LET r == processResponse(requestSpec.acknowledge, data)
       IN  /\ processResponseEffects(r, data)
           /\ IF r.err = NoErr THEN markEndTime ELSE UNCHANGED responseEvents
           /\ callback(r.err, connected)
    /\ UNCHANGED <<requestSpec, transmitted, opened, receivers, index,
                   currentResponsesCount, timer, requestEvents, validations,
                   arrivals, calls, pending>>
    /\ UNCHANGED connVars

Next ==
    \/ zero
    \/ connectZero
    \/ preStep
    \/ connectStep
    \/ \E channel \in Channels, data \in MsgData, hook \in BOOLEAN :
           listener(channel, data, hook)
    \/ responseTimeout
    \/ \E data \in MsgData : ackCallback(data)

Spec == Init /\ [][Next]_vars

\* ------------------------------------------------------------ properties

\* the step reached f with a channel and a response requirement
ResponseStep == requestSpec.hasChannel /\ isResponseRequired(requestSpec)

\* the step declares neither response nor acknowledge
PlainStep ==
    /\ requestSpec.hasChannel
    /\ ~isResponseRequired(requestSpec)
    /\ ~isAcknowledgeRequired(requestSpec)

Range(q) == {q[i] : i \in 1..Len(q)}
ValidCount == Cardinality({i \in 1..Len(validations) : validations[i].ok})
FailedCount == Cardinality({i \in 1..Len(validations) : ~validations[i].ok})

\* C1: an emit-with-response step invokes its completion callback exactly
\* once: never a second time, and once the timeout has fired it has been
\* invoked.
C1_CallbackExactlyOnce ==
    ResponseStep =>
        /\ Len(cbCalls) <= 1
        /\ timer = "fired" => Len(cbCalls) = 1

\* C2: the global received counter counts only the messages that passed
\* validation, and the callback is invoked with no error exactly when the
\* required number of messages have passed validation.
C2_SuccessIffAllValidated ==
    ResponseStep =>
        /\ currentResponsesCount = ValidCount
        /\ (NoErr \in Range(cbCalls)) <=>
               (ValidCount = Len(requestSpec.response))

\* positions of emit.response that are declared for a channel
DeclaredPositions(channel) ==
    {p \in 1..Len(requestSpec.response) : requestSpec.response[p].channel = channel}

\* the position in emit.response of the j-th spec declared for a channel
\* (0 when there are fewer than j)
DeclaredPosition(channel, j) ==
    LET ps == {p \in DeclaredPositions(channel) :
                  Cardinality({q \in DeclaredPositions(channel) : q <= p}) = j}
    IN  IF ps = {} THEN 0 ELSE CHOOSE p \in ps : TRUE

\* C3: the j-th message accepted on a channel is validated against the j-th
\* response spec declared for that channel, and never against a spec of
\* another channel.
C3_ValidatedInDeclarationOrder ==
    \A i \in 1..Len(validations) :
        LET ch == validations[i].channel
            j == Cardinality({m \in 1..i : validations[m].channel = ch})
            p == DeclaredPosition(ch, j)
        IN  /\ p # 0
            /\ validations[i].spec = requestSpec.response[p]
            /\ validations[i].spec.channel = ch

\* C3 witness: two messages validated on one channel against different
\* specs, with a message of the other channel validated in between
C3_Witness ==
    \E i, j, k \in 1..Len(validations) :
        /\ i < j /\ j < k
        /\ validations[i].channel = validations[k].channel
        /\ validations[j].channel # validations[i].channel
        /\ validations[i].spec # validations[k].spec

\* C4: once a message has failed validation the step has failed and every
\* listener of the step, on every channel, is closed.
C4_FailureClosesAllListeners ==
    (ResponseStep /\ FailedCount > 0) =>
        /\ Len(cbCalls) >= 1
        /\ receivers = {}

\* C5: once the timer has fired below the required count, the callback has
\* been invoked with the timeout error and no receiver of the step is open.
C5_TimeoutClosesAllListeners ==
    "response timeout" \in Range(errors) =>
        /\ "response timeout" \in Range(cbCalls)
        /\ receivers = {}

\* C6: once an emit-with-response step has reached a terminal outcome, a
\* later event of the step changes nothing: no callback, no notification,
\* no validation, no change of vars or of the success counter.
C6_NoOpAfterTerminal ==
    [][(ResponseStep /\ Len(cbCalls) >= 1) =>
          UNCHANGED <<cbCalls, errors, responseEvents, matchEvents, ctxVars,
                      successCount, validations>>]_vars

\* C7: an emit step without a channel transmits nothing, reports 'invalid
\* arguments' and has invoked the step callback once with that error by the
\* time f returns.
C7_InvalidArgumentsFailsStep ==
    (requestEvents >= 1 /\ ~requestSpec.hasChannel) =>
        /\ transmitted = << >>
        /\ errors = <<"invalid arguments">>
        /\ cbCalls = <<"invalid arguments">>

\* C8: a step that failed with the timeout error has emitted no 'response'
\* (latency) event at any point.
C8_NoLatencyOnTimeout ==
    "response timeout" \in Range(errors) =>
        /\ "response timeout" \in Range(cbCalls)
        /\ responseEvents = 0

\* C9: an emit-with-response step that completed successfully has emitted
\* the 'response' (latency) event exactly once.
C9_LatencyOncePerStep ==
    (ResponseStep /\ NoErr \in Range(cbCalls)) => responseEvents = 1

\* C10: once f has run for a step with neither response nor acknowledge, the
\* message was transmitted once without acknowledgement callback, no
\* listener and no timer exist, latency was recorded once and the step
\* callback was invoked once with no error, all within that call.
C10_PlainStepCompletesSynchronously ==
    (PlainStep /\ requestEvents >= 1) =>
        /\ transmitted = <<[ack |-> FALSE]>>
        /\ ~ackPending
        /\ opened = {} /\ receivers = {}
        /\ timer = "off"
        /\ responseEvents = 1
        /\ cbCalls = <<NoErr>>
        /\ pc = "done"

\* C10 witness: f has just run for such a step
C10_Witness ==
    /\ PlainStep
    /\ requestEvents = 1
    /\ lastEvent.kind \in {"preStep", "connect"}
    /\ Len(transmitted) = 1


\* C11: a channel client is created at most once per namespace of a context:
\* a namespace has a stored client exactly when one was created for it, and
\* no second client is ever created for it.
C11_ClientCreatedAtMostOnce ==
    \A n \in Namespaces :
        /\ created[n] <= 1
        /\ n \in sockets <=> created[n] = 1

\* C11 witness: the emit step's pre-step obtained the client of the default
\* namespace, which the initial step had created, and f ran with it
C11_Witness ==
    /\ requestSpec.namespace = ""
    /\ requestEvents = 1
    /\ created[""] = 1
    /\ "" \in sockets


\* ------------------------------------- connection events of the clients

MaxReconnects == 1  \* 'connect' notifications of a client after its first

\* an 'error' notification of a client that has not connected yet
\* (lines 339-343): the error is written to the console
socketError(namespace) ==
    /\ namespace \in sockets
    /\ connectCbCalls[namespace] = 0
    /\ namespace \notin socketErrors
    /\ socketErrors' = socketErrors \cup {namespace}
    /\ lastEvent' = [kind |-> "socketError"]
    /\ UNCHANGED <<requestSpec, pc, sockets, connected, arrivals, created,
                   connectCbCalls, calls, pending>>
    /\ UNCHANGED stepVars

\* a further 'connect' notification of a connected client (lines 346-353):
\* the loop calls cb again.  The default client's cb is done (lines 381-388),
\* whose callback the waterfall has already consumed; the cb of a client
\* created by preStep (lines 303-311) calls f.
reconnect(namespace) ==
    /\ namespace \in connected
    /\ connectCbCalls[namespace] >= 1
    /\ connectCbCalls[namespace] <= MaxReconnects
    /\ connectCbCalls' = [connectCbCalls EXCEPT ![namespace] = @ + 1]
    /\ lastEvent' = [kind |-> "reconnect"]
    /\ UNCHANGED <<requestSpec, sockets, arrivals, created, socketErrors,
                   pending>>
    /\ IF namespace = ""
       THEN /\ UNCHANGED <<pc, connected, calls>>
            /\ UNCHANGED stepVars
       ELSE f(connected)

\* the connection registry is exercised with steps that declare neither
\* response nor acknowledge
InitConn ==
    /\ Init
    /\ requestSpec.response = << >>
    /\ ~requestSpec.acknowledge.required

NextConn ==
    \/ zero
    \/ connectZero
    \/ preStep
    \/ connectStep
    \/ \E namespace \in Namespaces : socketError(namespace)
    \/ \E namespace \in Namespaces : reconnect(namespace)

SpecConn == InitConn /\ [][NextConn]_vars

\* C12: once a newly created client has reported an error before connecting,
\* the obtain has resolved with it: the error was reported, nothing was
\* transmitted and the scenario chain has ended.
C12_ConnectionErrorEndsChain ==
    socketErrors # {} =>
        /\ pc = "done"
        /\ errors # << >>
        /\ transmitted = << >>

\* C20: the callback given to a call of loadContextSocket is invoked at most
\* once, so the emit step is started at most once.
C20_LoadCallbackAtMostOnce ==
    /\ \A n \in Namespaces : connectCbCalls[n] <= 1
    /\ requestEvents <= 1


\* --------------------------------------------------------- fair runs

MaxFairResp == 1    \* declared response specs of the steps run fairly

InitFair ==
    /\ Init
    /\ Len(requestSpec.response) <= MaxFairResp

\* the waterfall runs its tasks, created clients connect and an armed timer
\* fires
Fairness ==
    /\ WF_vars(zero)
    /\ WF_vars(connectZero)
    /\ WF_vars(preStep)
    /\ WF_vars(connectStep)
    /\ WF_vars(responseTimeout)

\* the remote side may never acknowledge
FairSpec == InitFair /\ [][Next]_vars /\ Fairness

\* the remote side acknowledges every transmit that asks for it
FairSpecAck ==
    /\ InitFair /\ [][Next]_vars /\ Fairness
    /\ WF_vars(\E data \in MsgData : ackCallback(data))

\* C13: a scenario run that has created channel clients eventually ends and
\* has disconnected every client of its context.
C13_ClientsEventuallyDisconnected ==
    (sockets # {}) ~> (pc = "done" /\ connected = {})

\* C19: an emit step that has transmitted its message and waits eventually
\* invokes its step callback.
C19_WaitingStepEventuallyCallsBack ==
    (Len(transmitted) >= 1) ~> (Len(cbCalls) >= 1)


\* C14: context.vars and the success counter change only in a step of a
\* response or acknowledgement that passed validation; a step that reports a
\* validation error leaves both as they were.
C14_VarsChangeOnlyOnValidResponse ==
    [][(ctxVars' # ctxVars \/ successCount' # successCount) =>
          /\ errors' = errors
          /\ lastEvent'.kind \in {"message", "ack"}
          /\ lastEvent'.kind = "message" =>
                /\ Len(validations') = Len(validations) + 1
                /\ validations'[Len(validations')].ok
                /\ validations'[Len(validations')].spec.match = 1
          /\ lastEvent'.kind = "ack" => requestSpec.acknowledge.match = 1]_vars

\* C14 witness: a message failed its match assertion after an earlier
\* message had been captured, and the captured value is still there
C14_Witness ==
    /\ ctxVars = 1
    /\ successCount = 1
    /\ FailedCount = 1
    /\ lastEvent.kind = "message"
    /\ "Failed match" \in Range(errors)


\* C15: an emit step that declares acknowledge, alone or with a response
\* requirement, transmits its message with the acknowledgement callback, and
\* is not declared successful while that callback is still outstanding.
C15_AcknowledgeTransmitHasCallback ==
    (requestSpec.hasChannel /\ isAcknowledgeRequired(requestSpec)
        /\ Len(transmitted) >= 1) =>
        /\ transmitted[1].ack
        /\ NoErr \in Range(cbCalls) => ~ackPending

CallPositions(op) == {i \in 1..Len(calls) : calls[i].op = op}

\* C16: in an emit-with-response step a listener is opened for every
\* distinct expected channel (once each) before the one transmit, and the
\* one timer of the step is armed after the transmit.
C16_ListenersThenTransmitThenTimer ==
    (ResponseStep /\ requestEvents >= 1) =>
        /\ Cardinality(CallPositions("transmit")) = 1
        /\ Cardinality(CallPositions("setTimeout")) = 1
        /\ Len(transmitted) = 1
        /\ Cardinality(CallPositions("receiver")) =
               Cardinality(expectedChannels(requestSpec))
        /\ \A c \in expectedChannels(requestSpec) :
               \E i \in CallPositions("receiver") :
                   /\ calls[i].channel = c
                   /\ \A t \in CallPositions("transmit") : i < t
        /\ \A t \in CallPositions("transmit"), s \in CallPositions("setTimeout") :
               t < s

\* C16 witness: f has run for a step that expects responses on two channels
C16_Witness ==
    /\ ResponseStep
    /\ requestEvents = 1
    /\ Cardinality(opened) = 2
    /\ Len(calls) = 4
    /\ timer = "armed"


\* C17: a configured beforeResponse hook is handed the response spec the
\* arriving message would be validated against (the next expected one of
\* the channel); a message it rejects changes neither the channel's index,
\* the received counter, vars, the listeners nor the validations.
C17_HookSeesNextExpectedSpec ==
    [][(requestSpec.beforeResponse /\ arrivals' = arrivals + 1) =>
          LET ch == lastEvent'.channel
              responses == channelsResponses(requestSpec, ch)
              next == index[ch] + 2
          IN  /\ lastEvent'.hookArg.defined
              /\ next <= Len(responses)
              /\ lastEvent'.hookArg.spec = responses[next]
              /\ lastEvent'.kind = "ignored" =>
                    UNCHANGED <<index, currentResponsesCount, ctxVars,
                                successCount, receivers, validations,
                                cbCalls>>]_vars


\* ------------------------- validation that calls back asynchronously

MaxAsyncResp == 2   \* declared response specs of the steps run this way

\* one iteration of the listener loop (lines 241-258) in which processResponse
\* reaches engineUtil.captureOrMatch (line 75) and captureOrMatch has not
\* called back when the iteration ends
listenerDefer(channel, data, hook) ==
    /\ channel \in receivers
    /\ requestSpec.namespace \in connected
    /\ arrivals < MaxMsgs
    /\ IF requestSpec.beforeResponse THEN hook ELSE TRUE
    /\ index[channel] + 1 < Len(channelsResponses(requestSpec, channel))
    /\ LET response == responsesAt(requestSpec, channel, index[channel] + 1)
       IN  /\ ~(response.data # 0 /\ data # response.data)
           /\ response.match # 0
    /\ arrivals' = arrivals + 1
    /\ index' = [index EXCEPT ![channel] = @ + 1]
    /\ currentResponsesCount' = currentResponsesCount + 1
    /\ pending' = pending \cup
           {[channel |-> channel, idx |-> index[channel] + 1, data |-> data]}
    /\ lastEvent' = [kind |-> "deferred"]
    /\ UNCHANGED <<requestSpec, pc, sockets, connected, transmitted, ackPending,
                   opened, receivers, timer, cbCalls, errors, responseEvents,
                   requestEvents, matchEvents, ctxVars, successCount,
                   validations, calls>>
    /\ UNCHANGED connVars

\* the callback of captureOrMatch (lines 75-116) and then the callback of
\* processResponse (lines 258-275), which reads index and
\* currentResponsesCount as they are by then
captureOrMatchDone(p) ==
    /\ p \in pending
    /\ pending' = pending \ {p}
    /\ lastEvent' = [kind |-> "validated"]
    /\ sockets' = sockets
    /\ LET response == responsesAt(requestSpec, p.channel, p.idx)
           r == processResponse(response, p.data)
           failed == r.err # NoErr
           channelDone ==
               requiredResponsesCountsByChannel(requestSpec, p.channel) - 1
                   = index[p.channel]
           stepDone == requiredResponsesCount(requestSpec) = currentResponsesCount
       IN  /\ processResponseEffects(r, p.data)
           /\ validations' = Append(validations,
                  [channel |-> p.channel, spec |-> response, ok |-> ~failed])
           /\ IF failed THEN UNCHANGED responseEvents ELSE markEndTime
           /\ receivers' = IF channelDone \/ stepDone \/ failed
                           THEN receivers \ {p.channel} ELSE receivers
           /\ IF stepDone \/ failed
              THEN callback(r.err, connected)
              ELSE noCallback(pc, connected)
    /\ UNCHANGED <<requestSpec, transmitted, ackPending, opened, index,
                   currentResponsesCount, timer, requestEvents, arrivals,
                   calls>>
    /\ UNCHANGED connVars

InitAsync ==
    /\ Init
    /\ requestSpec.namespace = ""
    /\ requestSpec.hasChannel
    /\ ~requestSpec.acknowledge.required
    /\ Len(requestSpec.response) \in 1..MaxAsyncResp

NextAsync ==
    \/ zero
    \/ connectZero
    \/ preStep
    \/ \E channel \in Channels, data \in MsgData, hook \in BOOLEAN :
           listener(channel, data, hook)
    \/ \E channel \in Channels, data \in MsgData, hook \in BOOLEAN :
           listenerDefer(channel, data, hook)
    \/ \E p \in pending : captureOrMatchDone(p)
    \/ responseTimeout

SpecAsync == InitAsync /\ [][NextAsync]_vars

\* C18: the per-channel index never goes past the last response declared
\* for the channel, and a channel whose validated messages have reached its
\* required count has no running listener.
C18_IndexWithinDeclaredResponses ==
    \A c \in opened :
        /\ index[c] + 1 <= requiredResponsesCountsByChannel(requestSpec, c)
        /\ Cardinality({i \in 1..Len(validations) :
                           validations[i].channel = c /\ validations[i].ok})
               = requiredResponsesCountsByChannel(requestSpec, c)
           => c \notin receivers

====
